---- MODULE Spec2Model ----
(***************************************************************************)
(* ExifMetadataManager (src/src/ExifMetadataManager.ts).                   *)
(*                                                                         *)
(* JavaScript strings are sequences of UTF-16 code units, modelled as      *)
(* sequences of integers.  A tag value of a piexif ExifDict is a record    *)
(* [kind, str, num]: kind "undefined" for an absent tag, "string" for a    *)
(* string value (str), "number" for a non-string value (num).              *)
(***************************************************************************)
EXTENDS Integers, Sequences, FiniteSets

VARIABLES
    \* encodeOriginalFilename (the Writer)
    metadata,          \* the ExifDict the caller owns
    fileName,          \* fileName argument of the last call
    before,            \* metadata as it was when the last call started
    called,            \* TRUE once a call has been made
    changed,           \* TRUE once a call has changed metadata
    changedBy,         \* fileName of the first call that changed metadata
    firstValue,        \* UserComment value right after that call
    \* extractExifDateAndFilename (the Reader)
    rpc,               \* position of the async call
    exifObj,           \* result of piexif.load
    dateTaken,
    originalFileName,
    failedAt,          \* which step threw into the catch block ("none" if none)
    \* the comment codec, applied on its own
    cpc,
    text,              \* the text handed to the codec
    stored,            \* the UserComment value
    viaEncode,         \* TRUE when stored was produced by encoding text
    decodedR,          \* Reader's decoding of stored
    decodedW           \* Writer's decoding of stored

wvars == <<metadata, fileName, before, called, changed, changedBy, firstValue>>
rvars == <<rpc, exifObj, dateTaken, originalFileName, failedAt>>
cvars == <<cpc, text, stored, viaEncode, decodedR, decodedW>>
vars == <<metadata, fileName, before, called, changed, changedBy, firstValue,
          rpc, exifObj, dateTaken, originalFileName, failedAt,
          cpc, text, stored, viaEncode, decodedR, decodedW>>

-----------------------------------------------------------------------------
(* Bounds *)

\* comment texts are concatenations of at most MaxFrags fragments
MaxFrags == 3

-----------------------------------------------------------------------------
(* Code units *)

NUL == 0
LF == 10
CR == 13
SP == 32
HYPHEN == 45
COLON == 58
\* U+2028 LINE SEPARATOR
LS == 8232

\* LineTerminator of ECMAScript: what ^, $ and . of a /m regex look at
LineTerminator == {10, 13, 8232, 8233}

\* what \s matches and String.prototype.trim strips (WhiteSpace + LineTerminator)
WhiteSpace == {9, 10, 11, 12, 13, 32, 160, 5760, 8239, 8287, 12288, 65279,
               8232, 8233} \cup (8192..8202)

\* "ASCII\0\0\0"
prefix == <<65, 83, 67, 73, 73, NUL, NUL, NUL>>

\* "OriginalFilename"
Label == <<79, 114, 105, 103, 105, 110, 97, 108, 70, 105, 108, 101, 110, 97, 109, 101>>

\* "OriginalFilename:" as the Reader's regex spells it
LabelColon == Label \o <<COLON>>

\* "OriginalFilename: " as the Writer writes it
AnnotationHead == Label \o <<COLON, SP>>

-----------------------------------------------------------------------------
(* Tag values *)

Undefined == [kind |-> "undefined", str |-> <<>>, num |-> 0]
Str(s) == [kind |-> "string", str |-> s, num |-> 0]
Num(n) == [kind |-> "number", str |-> <<>>, num |-> n]

\* JavaScript truthiness of a tag value
Truthy(v) ==
    CASE v.kind = "undefined" -> FALSE
      [] v.kind = "string" -> v.str # <<>>
      [] OTHER -> v.num # 0

-----------------------------------------------------------------------------
(* String primitives *)

SetMin(S) == CHOOSE x \in S : \A y \in S : x <= y
SetMax(S) == CHOOSE x \in S : \A y \in S : x >= y

\* s.startsWith(p)
StartsWith(s, p) == Len(s) >= Len(p) /\ SubSeq(s, 1, Len(p)) = p

\* s.substring(n)
Substring(s, n) == IF n >= Len(s) THEN <<>> ELSE SubSeq(s, n + 1, Len(s))

\* s.trim()
Trim(s) ==
    LET keep == {i \in 1..Len(s) : s[i] \notin WhiteSpace}
    IN IF keep = {} THEN <<>> ELSE SubSeq(s, SetMin(keep), SetMax(keep))

\* s.split(/\r?\n/): every LF separates, and swallows a CR right before it
SplitLines(s) ==
    LET lfs == {i \in 1..Len(s) : s[i] = LF}
        n == Cardinality(lfs)
        kth(k) == CHOOSE i \in lfs : Cardinality({j \in lfs : j < i}) = k - 1
        first(k) == IF k = 1 THEN 1 ELSE kth(k - 1) + 1
        last(k) == IF k = n + 1 THEN Len(s)
                   ELSE LET p == kth(k)
                        IN IF p - 1 >= first(k) /\ s[p - 1] = CR THEN p - 2 ELSE p - 1
    IN [k \in 1..(n + 1) |->
          IF first(k) > last(k) THEN <<>> ELSE SubSeq(s, first(k), last(k))]

-----------------------------------------------------------------------------
(* The comment codec, inlined twice in the source *)

\* Faulty variant: strips the five letters of the prefix only
ReaderDecodeShort(userComment) ==
    IF userComment.kind = "string" /\ StartsWith(userComment.str, prefix)
    THEN Substring(userComment.str, 5)
    ELSE IF userComment.kind = "string" THEN userComment.str
    ELSE <<>>

\* Reader, lines 33-38
ReaderDecode(userComment) ==
    IF userComment.kind = "string" /\ StartsWith(userComment.str, prefix)
    THEN Substring(userComment.str, 8)
    ELSE IF userComment.kind = "string" THEN userComment.str
    ELSE <<>>

RECURSIVE StripAll(_)
StripAll(s) == IF StartsWith(s, prefix) THEN StripAll(Substring(s, 8)) ELSE s

\* Faulty variant: strips every leading prefix, not one
WriterDecodeAll(existingComment) ==
    IF existingComment.kind = "string" THEN StripAll(existingComment.str) ELSE <<>>

\* Writer, lines 68-73
WriterDecode(existingComment) ==
    IF existingComment.kind = "string" /\ StartsWith(existingComment.str, prefix)
    THEN Substring(existingComment.str, 8)
    ELSE IF existingComment.kind = "string" THEN existingComment.str
    ELSE <<>>

\* Faulty variant: the prefix is left out
EncodeBare(commentText) == commentText

\* Writer, lines 86-87: prefix + commentText
Encode(commentText) == prefix \o commentText

-----------------------------------------------------------------------------
(* The Reader's regex and date handling *)

\* /^OriginalFilename:\s*(.+)$/m tried at start position i.  ^ holds at the
\* start of the text and after a LineTerminator.  \s* is greedy and gives back
\* one code unit at a time until (.+) finds a code unit that is no
\* LineTerminator; (.+) then runs to the end of that line, where $ holds.
LineStart(s, i) == i = 1 \/ s[i - 1] \in LineTerminator

LabelAt(s, i) ==
    /\ i + Len(LabelColon) - 1 <= Len(s)
    /\ SubSeq(s, i, i + Len(LabelColon) - 1) = LabelColon

\* first index at or after j that \s does not match (Len(s) + 1 if none)
SpaceEnd(s, j) ==
    SetMin({k \in j..(Len(s) + 1) : k = Len(s) + 1 \/ s[k] \notin WhiteSpace})

\* where (.+) may start after the label at i
CaptureStarts(s, i) ==
    LET j == i + Len(LabelColon)
    IN {k \in j..SpaceEnd(s, j) : k <= Len(s) /\ s[k] \notin LineTerminator}

\* last index of the line that holds index k
LineEnd(s, k) ==
    SetMin({e \in k..Len(s) : e = Len(s) \/ s[e + 1] \in LineTerminator})

MatchAt(s, i) == LineStart(s, i) /\ LabelAt(s, i) /\ CaptureStarts(s, i) # {}

\* match[1] of the leftmost match
Capture(s, i) ==
    LET k == SetMax(CaptureStarts(s, i))
    IN SubSeq(s, k, LineEnd(s, k))

\* Reader, lines 39-42: originalFileName for a decoded commentText
MatchOriginalFilename(commentText) ==
    LET starts == {i \in 1..Len(commentText) : MatchAt(commentText, i)}
    IN IF starts = {} THEN <<>> ELSE Trim(Capture(commentText, SetMin(starts)))

\* exifDate.split(' ')[0]
FirstToken(s) ==
    LET sp == {i \in 1..Len(s) : s[i] = SP}
    IN IF sp = {} THEN s ELSE SubSeq(s, 1, SetMin(sp) - 1)

\* Faulty variant: replace(/:/, '-') without the g flag
ReplaceFirstColon(s) ==
    LET cs == {i \in 1..Len(s) : s[i] = COLON}
    IN [i \in 1..Len(s) |-> IF cs # {} /\ i = SetMin(cs) THEN HYPHEN ELSE s[i]]

\* .replace(/:/g, '-')
ReplaceColons(s) == [i \in 1..Len(s) |-> IF s[i] = COLON THEN HYPHEN ELSE s[i]]

\* Reader, line 28
NormalizeDate(exifDate) == ReplaceColons(FirstToken(exifDate))

-----------------------------------------------------------------------------
(* The Writer's steps *)

\* metadata?.Exif?.[piexif.ExifIFD.DateTimeOriginal], line 57
hasOriginalMetadata(md) ==
    IF md.hasExif THEN md.Exif.DateTimeOriginal ELSE Undefined

\* Faulty variant: the fileName test is missing
EarlyReturnDateOnly(fn, md) == ~Truthy(hasOriginalMetadata(md))

\* line 58: if (!hasOriginalMetadata || !fileName) return
EarlyReturn(fn, md) == ~Truthy(hasOriginalMetadata(md)) \/ fn = <<>>

\* Faulty variant: looks at the first line only
hasOriginalFilenameFirst(commentText) ==
    StartsWith(Trim(SplitLines(commentText)[1]), Label)

\* lines 76-78
hasOriginalFilename(commentText) ==
    LET lines == SplitLines(commentText)
    IN \E k \in 1..Len(lines) : StartsWith(Trim(lines[k]), Label)

\* Faulty variant: the line feed is left out
AppendAnnotationNoLF(commentText, fn) ==
    IF commentText # <<>> THEN commentText \o AnnotationHead \o fn
    ELSE AnnotationHead \o fn

\* lines 82-84
AppendAnnotation(commentText, fn) ==
    IF commentText # <<>> THEN commentText \o <<LF>> \o AnnotationHead \o fn
    ELSE AnnotationHead \o fn

\* an absent tag in every slot: the {} of line 62
EmptySection == [DateTimeOriginal |-> Undefined, UserComment |-> Undefined,
                 Other |-> Undefined]

\* encodeOriginalFilename, lines 54-90: the container after the call
EncodeResult(fn, md) ==
    IF EarlyReturn(fn, md) THEN md
    ELSE LET exif == IF md.hasExif THEN md.Exif ELSE EmptySection
             existingComment == exif.UserComment
             commentText == WriterDecode(existingComment)
         IN IF hasOriginalFilename(commentText) THEN md
            ELSE [hasExif |-> TRUE,
                  Exif |-> [exif EXCEPT !.UserComment =
                              Str(Encode(AppendAnnotation(commentText, fn)))]]

-----------------------------------------------------------------------------
(* Inputs *)

Fragments == {prefix, Label, LabelColon, <<SP>>, <<LF>>, <<CR>>, <<97>>}

RECURSIVE Texts(_)
Texts(n) ==
    IF n = 0 THEN {<<>>}
    ELSE LET T == Texts(n - 1) IN T \cup {t \o f : t \in T, f \in Fragments}

CommentTexts == Texts(MaxFrags)

\* a UserComment tag: absent, not a string, or any text
CommentValues == {Undefined, Num(7)} \cup {Str(t) : t \in CommentTexts}

\* "", "a", " a ", "a b", " ", "a\nb", "a b", "old.jpg"
FileNames == {<<>>, <<97>>, <<SP, 97, SP>>, <<97, SP, 98>>, <<SP>>,
              <<97, LF, 98>>, <<97, LS, 98>>,
              <<111, 108, 100, 46, 106, 112, 103>>}

\* "YYYY:MM:DD HH:MM:SS"
DateForms ==
    {y \o <<COLON>> \o m \o <<COLON>> \o d \o <<SP>> \o t :
        y \in {<<50, 48, 50, 49>>, <<49, 57, 57, 57>>},
        m \in {<<48, 55>>, <<49, 50>>},
        d \in {<<48, 52>>, <<51, 49>>},
        t \in {<<49, 48, COLON, 48, 48, COLON, 48, 48>>,
               <<50, 51, COLON, 53, 57, COLON, 53, 57>>}}

\* "2021:07:04 10:00:00"
SampleDate == <<50, 48, 50, 49, COLON, 48, 55, COLON, 48, 52, SP,
                49, 48, COLON, 48, 48, COLON, 48, 48>>

\* what piexif.load may yield for DateTimeOriginal: absent, well formed,
\* empty, date only, or not a string
ReaderDates == {Undefined, Str(<<>>), Str(SubSeq(SampleDate, 1, 10)), Num(0), Num(2021)}
                 \cup {Str(d) : d \in DateForms}

WriterDates == {Undefined, Str(<<>>), Str(SampleDate)}

NoExif == [hasExif |-> FALSE, Exif |-> EmptySection]

Container(date, comment) ==
    [hasExif |-> TRUE,
     Exif |-> [DateTimeOriginal |-> date, UserComment |-> comment,
               Other |-> Str(<<97>>)]]

WriterContainers ==
    {NoExif} \cup {Container(d, c) : d \in WriterDates, c \in CommentValues}

ReaderContainers ==
    {NoExif} \cup {Container(d, c) : d \in ReaderDates, c \in CommentValues}

-----------------------------------------------------------------------------
(* Idle values of the three parts *)

WriterIdle ==
    /\ metadata = NoExif /\ fileName = <<>> /\ before = NoExif
    /\ called = FALSE /\ changed = FALSE /\ changedBy = <<>>
    /\ firstValue = Undefined

ReaderIdle ==
    /\ rpc = "idle" /\ exifObj = NoExif /\ dateTaken = <<>>
    /\ originalFileName = <<>> /\ failedAt = "none"

CodecIdle ==
    /\ cpc = "idle" /\ text = <<>> /\ stored = Undefined /\ viaEncode = FALSE
    /\ decodedR = <<>> /\ decodedW = <<>>

-----------------------------------------------------------------------------
(* The Writer: any sequence of calls on one container *)

InitWriter ==
    /\ metadata \in WriterContainers
    /\ fileName = <<>> /\ before = metadata
    /\ called = FALSE /\ changed = FALSE /\ changedBy = <<>>
    /\ firstValue = Undefined
    /\ ReaderIdle /\ CodecIdle

\* static async encodeOriginalFilename(fileName, metadata), lines 54-90
encodeOriginalFilename ==
    \E fn \in FileNames :
        LET after == EncodeResult(fn, metadata)
            first == ~changed /\ after # metadata
        IN /\ metadata' = after
           /\ fileName' = fn
           /\ before' = metadata
           /\ called' = TRUE
           /\ changed' = (changed \/ first)
           /\ changedBy' = IF first THEN fn ELSE changedBy
           /\ firstValue' = IF first THEN after.Exif.UserComment ELSE firstValue
           /\ UNCHANGED <<rvars, cvars>>

NextWriter == encodeOriginalFilename

SpecWriter == InitWriter /\ [][NextWriter]_vars

-----------------------------------------------------------------------------
(* The Reader: one call after another, each on its own file *)

InitReader == WriterIdle /\ ReaderIdle /\ CodecIdle

\* the catch block, lines 43-46: warn, then return what has been assigned
Catch(step) ==
    /\ rpc' = "done"
    /\ failedAt' = step
    /\ UNCHANGED <<exifObj, dateTaken, originalFileName>>

\* lines 16-20: the call runs up to the await
ExtractCall ==
    /\ rpc \in {"idle", "done"}
    /\ rpc' = "readBinary"
    /\ exifObj' = NoExif
    /\ dateTaken' = <<>>
    /\ originalFileName' = <<>>
    /\ failedAt' = "none"
    /\ UNCHANGED <<wvars, cvars>>

\* line 20: this.app.vault.readBinary(file) resolves
ReadBinaryResolves ==
    /\ rpc = "readBinary"
    /\ rpc' = "load"
    /\ UNCHANGED <<exifObj, dateTaken, originalFileName, failedAt>>
    /\ UNCHANGED <<wvars, cvars>>

\* line 20: this.app.vault.readBinary(file) rejects
ReadBinaryRejects ==
    /\ rpc = "readBinary"
    /\ Catch("readBinary")
    /\ UNCHANGED <<wvars, cvars>>

\* lines 21-26: the header is transcoded and piexif.load returns a container
PiexifLoad ==
    /\ rpc = "load"
    /\ \E c \in ReaderContainers : exifObj' = c
    /\ rpc' = "date"
    /\ UNCHANGED <<dateTaken, originalFileName, failedAt>>
    /\ UNCHANGED <<wvars, cvars>>

\* lines 21-26: the transcoding or piexif.load throws
PiexifLoadThrows ==
    /\ rpc = "load"
    /\ Catch("load")
    /\ UNCHANGED <<wvars, cvars>>

\* exifObj?.Exif?.[tag]
ReaderTag(obj, tag) == IF obj.hasExif THEN obj.Exif[tag] ELSE Undefined

\* lines 27-28: a truthy value that is no string has no split method
ExtractDate ==
    /\ rpc = "date"
    /\ LET exifDate == ReaderTag(exifObj, "DateTimeOriginal")
       IN IF Truthy(exifDate)
          THEN IF exifDate.kind = "string"
               THEN /\ dateTaken' = NormalizeDate(exifDate.str)
                    /\ rpc' = "comment"
                    /\ UNCHANGED <<exifObj, originalFileName, failedAt>>
               ELSE Catch("date")
          ELSE /\ rpc' = "comment"
               /\ UNCHANGED <<exifObj, dateTaken, originalFileName, failedAt>>
    /\ UNCHANGED <<wvars, cvars>>

\* Faulty variant: startsWith is called without the typeof test
ExtractCommentUnguarded ==
    /\ rpc = "comment"
    /\ LET userComment == ReaderTag(exifObj, "UserComment")
       IN IF userComment.kind = "number"
          THEN Catch("comment")
          ELSE /\ originalFileName' = MatchOriginalFilename(ReaderDecode(userComment))
               /\ rpc' = "done"
               /\ UNCHANGED <<exifObj, dateTaken, failedAt>>
    /\ UNCHANGED <<wvars, cvars>>

\* lines 30-46: decode the comment, match the annotation, return
ExtractComment ==
    /\ rpc = "comment"
    /\ LET userComment == ReaderTag(exifObj, "UserComment")
           commentText == ReaderDecode(userComment)
       IN originalFileName' = MatchOriginalFilename(commentText)
    /\ rpc' = "done"
    /\ UNCHANGED <<exifObj, dateTaken, failedAt>>
    /\ UNCHANGED <<wvars, cvars>>

NextReader ==
    \/ ExtractCall
    \/ ReadBinaryResolves
    \/ ReadBinaryRejects
    \/ PiexifLoad
    \/ PiexifLoadThrows
    \/ ExtractDate
    \/ ExtractComment

SpecReader == InitReader /\ [][NextReader]_vars

-----------------------------------------------------------------------------
(* The codec on its own: a text is encoded, or a raw value is found in the
   tag, and both decoders read it *)

InitCodec ==
    /\ cpc = "idle" /\ text \in CommentTexts /\ stored = Undefined
    /\ viaEncode = FALSE /\ decodedR = <<>> /\ decodedW = <<>>
    /\ WriterIdle /\ ReaderIdle

\* lines 86-87
StoreEncoded ==
    /\ cpc = "idle"
    /\ stored' = Str(Encode(text))
    /\ viaEncode' = TRUE
    /\ cpc' = "stored"
    /\ UNCHANGED <<text, decodedR, decodedW>>
    /\ UNCHANGED <<wvars, rvars>>

\* a value some other program left in the tag
StoreRaw ==
    /\ cpc = "idle"
    /\ stored' \in {Undefined, Num(7), Str(text)}
    /\ viaEncode' = FALSE
    /\ cpc' = "stored"
    /\ UNCHANGED <<text, decodedR, decodedW>>
    /\ UNCHANGED <<wvars, rvars>>

\* lines 33-38 and lines 68-73
DecodeStored ==
    /\ cpc = "stored"
    /\ decodedR' = ReaderDecode(stored)
    /\ decodedW' = WriterDecode(stored)
    /\ cpc' = "decoded"
    /\ UNCHANGED <<text, stored, viaEncode>>
    /\ UNCHANGED <<wvars, rvars>>

NextCodec == StoreEncoded \/ StoreRaw \/ DecodeStored

SpecCodec == InitCodec /\ [][NextCodec]_vars

-----------------------------------------------------------------------------
(* Vocabulary of the properties *)

\* the date-taken tag is present with a value (the test of line 58)
DatePresent(md) == md.hasExif /\ Truthy(md.Exif.DateTimeOriginal)

NoLineBreak(s) == \A i \in 1..Len(s) : s[i] \notin LineTerminator

\* the label and colon stand where the Reader's regex anchors a line
ReaderSeesLabel(s) == \E i \in 1..Len(s) : LineStart(s, i) /\ LabelAt(s, i)

oldComment == before.Exif.UserComment
newComment == metadata.Exif.UserComment
oldText == WriterDecode(oldComment)
newText == ReaderDecode(newComment)
annotationLine == AnnotationHead \o fileName
readerDate == ReaderTag(exifObj, "DateTimeOriginal")
readerComment == ReaderTag(exifObj, "UserComment")

\* the Writer got past line 58 and found no annotation line
WriterAppends ==
    /\ called /\ DatePresent(before) /\ fileName # <<>>
    /\ ~hasOriginalFilename(oldText)

-----------------------------------------------------------------------------
(* C1 *)

\* C1: extractExifDateAndFilename never raises; when readBinary, piexif.load
\* or a decoding step fails, the call completes and returns empty strings for
\* both fields, never a partially filled result.
C1_EmptyOnFailure ==
    /\ rpc \in {"idle", "readBinary", "load", "date", "comment", "done"}
    /\ (rpc = "done" /\ failedAt # "none") =>
          (dateTaken = <<>> /\ originalFileName = <<>>)

\* a decoding step threw after the container was parsed
C1_Witness ==
    /\ rpc = "done" /\ failedAt = "date"
    /\ readerDate.kind = "number" /\ readerComment.kind = "string"

-----------------------------------------------------------------------------
(* C2 *)

\* C2: over any sequence of calls the comment value stays what the first
\* changing call made it, and a call that finds an annotation line changes
\* nothing, whatever filename it is given.
C2_FirstWriterWins ==
    /\ changed => (metadata.hasExif /\ newComment = firstValue)
    /\ (called /\ hasOriginalFilename(oldText)) => metadata = before

\* a later call with another filename, after the comment was written
C2_Witness ==
    /\ changed /\ before = metadata
    /\ fileName # <<>> /\ fileName # changedBy
    /\ WriterDecode(firstValue) # annotationLine

-----------------------------------------------------------------------------
(* C3 *)

\* C3: with the date tag present and the comment tag absent, writing a
\* non-empty filename without line break or outer whitespace and then
\* decoding and matching as the Reader does returns exactly that filename.
C3_RoundTrip ==
    (/\ called /\ DatePresent(before) /\ oldComment = Undefined
     /\ fileName # <<>> /\ NoLineBreak(fileName) /\ Trim(fileName) = fileName)
    => MatchOriginalFilename(newText) = fileName

C3_Witness ==
    /\ called /\ DatePresent(before) /\ oldComment = Undefined
    /\ fileName = <<97>> /\ newComment.kind = "string"

-----------------------------------------------------------------------------
(* C4 *)

\* C4: a call with an empty filename, or on a container without Exif section
\* or without date-taken value, leaves the container unchanged: same comment
\* tag, no Exif section created, no other tag modified.
C4_NoOp ==
    (called /\ (fileName = <<>> \/ ~DatePresent(before))) => metadata = before

\* an empty filename on a container the Writer would otherwise annotate
C4_Witness ==
    /\ called /\ fileName = <<>> /\ DatePresent(before)
    /\ ~hasOriginalFilename(oldText) /\ ~changed

-----------------------------------------------------------------------------
(* C5 *)

UnprefixedComment ==
    /\ called /\ DatePresent(before) /\ fileName # <<>>
    /\ oldComment.kind = "string" /\ ~StartsWith(oldComment.str, prefix)

\* C5 as stated: every comment string without the prefix starts with the
\* prefix after one call with a non-empty filename.
C5_Original ==
    UnprefixedComment =>
        (newComment.kind = "string" /\ StartsWith(newComment.str, prefix))

\* C5, amended: a comment string without the prefix and without a line whose
\* trimmed content starts with OriginalFilename starts with the prefix after
\* one call with a non-empty filename.
C5_PrefixNormalization ==
    (UnprefixedComment /\ ~hasOriginalFilename(oldText)) =>
        (newComment.kind = "string" /\ StartsWith(newComment.str, prefix))

C5_Witness ==
    /\ UnprefixedComment /\ ~hasOriginalFilename(oldText)
    /\ oldComment.str # <<>> /\ metadata # before

-----------------------------------------------------------------------------
(* C6 *)

AppendedText ==
    newText = (IF oldText = <<>> THEN annotationLine
               ELSE oldText \o <<LF>> \o annotationLine)

SingleLastLine ==
    LET lines == SplitLines(newText)
    IN /\ lines[Len(lines)] = annotationLine
       /\ Cardinality({k \in 1..Len(lines) : StartsWith(Trim(lines[k]), Label)}) = 1

ReaderFindsIt == MatchOriginalFilename(newText) = Trim(fileName)

\* C6 as stated: for every filename, a text in which neither the Writer nor
\* the Reader sees an annotation line becomes the old text, a line feed and
\* the annotation; the annotation is the single last line and the Reader
\* extracts it.
C6_Original ==
    (WriterAppends /\ ~ReaderSeesLabel(oldText)) =>
        (AppendedText /\ SingleLastLine /\ ReaderFindsIt)

\* C6, amended: the new text is the old text, a line feed and the annotation;
\* for a filename without line break the annotation is the single last line,
\* and the Reader extracts it when the old text has no label and colon at
\* its start or right after a line terminator.
C6_MultiLinePreservation ==
    WriterAppends =>
        /\ AppendedText
        /\ NoLineBreak(fileName) => SingleLastLine
        /\ (NoLineBreak(fileName) /\ ~ReaderSeesLabel(oldText)) => ReaderFindsIt

\* an annotation appended to a text of several lines
C6_Witness ==
    /\ WriterAppends /\ NoLineBreak(fileName) /\ ~ReaderSeesLabel(oldText)
    /\ Len(SplitLines(oldText)) > 1 /\ metadata # before

-----------------------------------------------------------------------------
(* C7 *)

\* explicit line splitting followed by a prefix match on the trimmed line
LineOrientedAnnotation(t) ==
    LET lines == SplitLines(t)
        hits == {k \in 1..Len(lines) : StartsWith(Trim(lines[k]), LabelColon)}
    IN IF hits = {} THEN <<>>
       ELSE Trim(Substring(Trim(lines[SetMin(hits)]), Len(LabelColon)))

\* C7: originalFileName is the trimmed rest of the first line whose trimmed
\* content starts with OriginalFilename:, taken from that line only, and
\* empty when there is no such line.
C7_LineOriented ==
    (rpc = "done" /\ failedAt = "none") =>
        originalFileName = LineOrientedAnnotation(ReaderDecode(readerComment))

-----------------------------------------------------------------------------
(* C8 *)

IsDateForm(s) ==
    /\ Len(s) = 19
    /\ \A i \in 1..19 :
          CASE i \in {5, 8, 14, 17} -> s[i] = COLON
            [] i = 11 -> s[i] = SP
            [] OTHER -> s[i] \in 48..57

\* YYYY-MM-DD of a YYYY:MM:DD HH:MM:SS
DatePortion(s) == [i \in 1..10 |-> IF i \in {5, 8} THEN HYPHEN ELSE s[i]]

\* C8: dateTaken is empty without date-taken tag; for a tag of the form
\* YYYY:MM:DD HH:MM:SS it is YYYY-MM-DD, whatever the comment tag holds; it
\* never holds the time portion.
C8_DateNormalization ==
    rpc = "done" =>
        /\ readerDate = Undefined => dateTaken = <<>>
        /\ (readerDate.kind = "string" /\ IsDateForm(readerDate.str)) =>
              (failedAt = "none" /\ dateTaken = DatePortion(readerDate.str))
        /\ \A i \in 1..Len(dateTaken) : dateTaken[i] \notin {SP, COLON}

\* "2021:07:04 10:00:00" gives "2021-07-04" next to a comment that is no string
C8_Witness ==
    /\ rpc = "done" /\ readerDate = Str(SampleDate)
    /\ dateTaken = <<50, 48, 50, 49, HYPHEN, 48, 55, HYPHEN, 48, 52>>
    /\ readerComment.kind = "number"

-----------------------------------------------------------------------------
(* C9 *)

\* C9: decoding an encoded text returns the text, also when the text begins
\* with the prefix; decode strips one prefix, returns an unprefixed value
\* unchanged and the empty string for an absent value; the Reader's and the
\* Writer's decode agree on every stored value.
C9_CodecRoundTrip ==
    cpc = "decoded" =>
        /\ decodedR = decodedW
        /\ viaEncode => (decodedR = text /\ stored = Str(prefix \o text))
        /\ stored.kind # "string" => decodedR = <<>>
        /\ (stored.kind = "string" /\ ~StartsWith(stored.str, prefix)) =>
              decodedR = stored.str
        /\ (stored.kind = "string" /\ StartsWith(stored.str, prefix)) =>
              prefix \o decodedR = stored.str

\* a text that itself begins with the prefix went through encode and decode
C9_Witness ==
    /\ cpc = "decoded" /\ viaEncode
    /\ StartsWith(text, prefix) /\ Len(text) > Len(prefix)

-----------------------------------------------------------------------------
(* C10 *)

\* C10: after a call with a non-empty filename (here even one that is not
\* blank) on a container with the date tag present and the comment absent or
\* a string, the Reader reads a non-empty originalFileName from the comment:
\* the Writer never skips writing because of a line the Reader cannot read.
C10_ReaderReadsBack ==
    (/\ called /\ DatePresent(before) /\ Trim(fileName) # <<>>
     /\ oldComment.kind \in {"undefined", "string"})
    => MatchOriginalFilename(newText) # <<>>

====
